---- MODULE Spec2Model ----
(***************************************************************************)
(* Model of scripts/build_ics.py: the calendar build pipeline that turns   *)
(* data/events.yaml into whatson-shropshire-cheshire-northwales.ics.       *)
(*                                                                         *)
(* Text is a sequence of one-character strings.  A YAML scalar is a record *)
(* [t, v]: t is its Python type ("str", "int", "none", "date") or "absent" *)
(* when the key is missing, v is the text of a str or an int (for the date *)
(* fields start/end: <<year, month, day, z>>, the numbers the text spells  *)
(* and z = 1 when month and day have their leading zero, as "2025-07-04",  *)
(* z = 0 when not, as "2025-7-4").                                         *)
(* A serialized line is [k |-> name, v |-> value characters]; a VEVENT is  *)
(* the sequence of its lines ("" is the empty sequence); the document is   *)
(* the sequence of all lines, each ended by EOL.                           *)
(***************************************************************************)
EXTENDS Integers, Sequences, FiniteSets, TLC

VARIABLES
    WINDOW_OPEN,    \* module global, line 50
    WINDOW_START,   \* module global, line 55 (unused when the window is open)
    WINDOW_END,     \* module global, line 56
    source,         \* data/events.yaml: [kind, events]
    pc,             \* position of the process in main() / __main__
    evs,            \* main(): result of load_events
    cleaned,        \* main(): the (s, e_end, e) triples, sorted
    vevents,        \* main(): the serialized units to emit
    outfile,        \* content of OUT_ICS, as lines
    status,         \* process exit status (-1 while running)
    iofault         \* TRUE once the operating system failed a call on OUT_ICS

vars == <<WINDOW_OPEN, WINDOW_START, WINDOW_END, source, pc, evs, cleaned,
          vevents, outfile, status, iofault>>

-----------------------------------------------------------------------------
(* Bounds of the inputs                                                    *)

MaxBatch == 2
MaxTextLen == 2

-----------------------------------------------------------------------------
(* Python values                                                           *)

Absent == [t |-> "absent", v |-> <<>>]
\* None: no line of the program reads its text
None == [t |-> "none", v |-> <<>>]
Str(s) == [t |-> "str", v |-> s]
Int7 == [t |-> "int", v |-> <<"7">>]

\* dict.get(key, "") : the default replaces a missing key only
GetOrEmpty(x) == IF x.t = "absent" THEN Str(<<>>) ELSE x

\* Python truthiness of a scalar (the only int of the model is non-zero)
Truthy(x) == CASE x.t = "str" -> x.v # <<>>
               [] x.t = "int" -> TRUE
               [] x.t = "date" -> TRUE
               [] OTHER -> FALSE

\* x or ""
OrEmpty(x) == IF Truthy(x) THEN x ELSE Str(<<>>)

-----------------------------------------------------------------------------
(* Text helpers                                                            *)

RECURSIVE ReplaceChar(_, _, _)
\* str.replace(c, r) for a one-character pattern c
ReplaceChar(s, c, r) ==
    IF s = <<>> THEN <<>>
    ELSE (IF Head(s) = c THEN r ELSE <<Head(s)>>) \o ReplaceChar(Tail(s), c, r)

\* esc, lines 39-41 (applied to str(s))
esc(s) ==
    ReplaceChar(ReplaceChar(ReplaceChar(ReplaceChar(s,
        "\\", <<"\\", "\\">>), ",", <<"\\", ",">>), ";", <<"\\", ";">>),
        "\n", <<"\\", "n">>)

Whitespace == {" ", "\n", "\t", "\r"}

RECURSIVE LStrip(_, _)
LStrip(s, cs) == IF s # <<>> /\ Head(s) \in cs THEN LStrip(Tail(s), cs) ELSE s

RECURSIVE RStrip(_, _)
RStrip(s, cs) ==
    IF s # <<>> /\ s[Len(s)] \in cs THEN RStrip(SubSeq(s, 1, Len(s) - 1), cs) ELSE s

\* str.strip() / str.strip(chars)
Strip(s, cs) == RStrip(LStrip(s, cs), cs)

RECURSIVE Join(_, _)
\* sep.join(parts)
Join(parts, sep) ==
    IF parts = <<>> THEN <<>>
    ELSE IF Len(parts) = 1 THEN parts[1]
    ELSE parts[1] \o sep \o Join(Tail(parts), sep)

RECURSIVE Flatten(_)
Flatten(ss) == IF ss = <<>> THEN <<>> ELSE Head(ss) \o Flatten(Tail(ss))

\* slugify, line 35: NFKD decomposition, then the non-ASCII code points are
\* dropped.  "e_acute" stands for U+00E9, "euro" for U+20AC.
AsciiFold(c) == CASE c = "e_acute" -> <<"e">>
                  [] c = "euro" -> <<>>
                  [] OTHER -> <<c>>

RECURSIVE FoldAll(_)
FoldAll(s) == IF s = <<>> THEN <<>> ELSE AsciiFold(Head(s)) \o FoldAll(Tail(s))

Lowers == {"a", "b", "e", "n"}
IsAlnum(c) == c \in Lowers \cup {"A", "B", "7"}
Lower(c) == CASE c = "A" -> "a" [] c = "B" -> "b" [] OTHER -> c

RECURSIVE DashRuns(_, _)
\* re.sub(r"[^a-zA-Z0-9]+", "-", t): inRun says the previous character was
\* already replaced
DashRuns(s, inRun) ==
    IF s = <<>> THEN <<>>
    ELSE IF IsAlnum(Head(s)) THEN <<Head(s)>> \o DashRuns(Tail(s), FALSE)
    ELSE (IF inRun THEN <<>> ELSE <<"-">>) \o DashRuns(Tail(s), TRUE)

RECURSIVE SqueezeDashes(_)
\* re.sub(r"-{2,}", "-", t)
SqueezeDashes(s) ==
    IF Len(s) < 2 THEN s
    ELSE IF s[1] = "-" /\ s[2] = "-" THEN SqueezeDashes(Tail(s))
    ELSE <<s[1]>> \o SqueezeDashes(Tail(s))

LowerAll(s) == [i \in 1..Len(s) |-> Lower(s[i])]

\* slugify, lines 34-37 (text is a str: the caller's TypeError is in BuildRaises)
slugify(text) ==
    LET t == LowerAll(Strip(DashRuns(FoldAll(text), FALSE), {"-"}))
        u == SqueezeDashes(t)
    IN IF u = <<>> THEN <<"e", "v", "e", "n", "t">> ELSE u

-----------------------------------------------------------------------------
(* Dates: datetime.date as <<year, month, day>>                            *)

IsLeap(y) == (y % 4 = 0 /\ y % 100 # 0) \/ y % 400 = 0

DaysInMonth(y, m) ==
    IF m = 2 THEN (IF IsLeap(y) THEN 29 ELSE 28)
    ELSE IF m \in {4, 6, 9, 11} THEN 30 ELSE 31

\* parse_ymd, lines 43-44: strptime raises TypeError on a non-str and
\* ValueError on a text that is no calendar date
CanParse(x) ==
    /\ x.t = "str"
    /\ Len(x.v) = 4
    /\ x.v[1] \in 1..9999
    /\ x.v[2] \in 1..12
    /\ x.v[3] \in 1..DaysInMonth(x.v[1], x.v[2])

\* the date of a text that parses: %m and %d take one digit or two
parse_ymd(x) == <<x.v[1], x.v[2], x.v[3]>>

\* date comparison: <
DateLT(a, b) ==
    \/ a[1] < b[1]
    \/ a[1] = b[1] /\ a[2] < b[2]
    \/ a[1] = b[1] /\ a[2] = b[2] /\ a[3] < b[3]

\* date + timedelta(days=1) raises OverflowError at date.max
IsDateMax(d) == d = <<9999, 12, 31>>

\* date + timedelta(days=1), line 106
NextDay(d) ==
    IF d[3] < DaysInMonth(d[1], d[2]) THEN <<d[1], d[2], d[3] + 1>>
    ELSE IF d[2] < 12 THEN <<d[1], d[2] + 1, 1>>
    ELSE <<d[1] + 1, 1, 1>>

Digit(n) == <<"0", "1", "2", "3", "4", "5", "6", "7", "8", "9">>[n + 1]

Fmt2(n) == <<Digit(n \div 10), Digit(n % 10)>>
Fmt4(n) == <<Digit(n \div 1000), Digit((n \div 100) % 10),
             Digit((n \div 10) % 10), Digit(n % 10)>>

\* date.strftime("%Y%m%d"), lines 106 and 113
Compact(d) == Fmt4(d[1]) \o Fmt2(d[2]) \o Fmt2(d[3])

\* f"{s.year}", line 107 (the years of the model have four digits)
YearText(d) == Fmt4(d[1])

\* date.isoformat(), line 158
Iso(d) == Fmt4(d[1]) \o <<"-">> \o Fmt2(d[2]) \o <<"-">> \o Fmt2(d[3])

-----------------------------------------------------------------------------
(* Module constants, lines 28-31 and 47-48                                 *)

DEFAULT_WINDOW_START == <<2025, 6, 1>>
DEFAULT_WINDOW_END == <<2027, 12, 31>>

\* CAL_NAME, PRODID and DTSTAMP are fixed texts without a character esc changes
CAL_NAME == <<"CAL_NAME">>
PRODID == <<"-//WhatsOn Builder//EN">>
DTSTAMP == <<"DTSTAMP">>

Line(k, v) == [k |-> k, v |-> v]

-----------------------------------------------------------------------------
(* Window, lines 50-61                                                     *)

\* lines 54-56: the window the environment configures
ConfiguredStart(ws) == IF ws.t = "str" THEN parse_ymd(ws) ELSE DEFAULT_WINDOW_START
ConfiguredEnd(we) == IF we.t = "str" THEN parse_ymd(we) ELSE DEFAULT_WINDOW_END

\* the window without its two boundary days
in_windowExclusive(s, e) ==
    IF WINDOW_OPEN THEN TRUE
    ELSE ~(~DateLT(WINDOW_START, e) \/ ~DateLT(s, WINDOW_END))

\* in_window, lines 58-61
in_window(s, e) ==
    IF WINDOW_OPEN THEN TRUE
    ELSE ~(DateLT(e, WINDOW_START) \/ DateLT(WINDOW_END, s))

-----------------------------------------------------------------------------
(* load_events, lines 64-78                                                *)

\* the file is missing, is no YAML, holds no list under "events", or holds one
load_events(src) == IF src.kind = "ok" THEN src.events ELSE <<>>

-----------------------------------------------------------------------------
(* build_vevent, lines 81-136                                              *)

\* lines 82-87: e["summary"], e["start"] raise KeyError
MissingRequired(e) == e.summary.t = "absent" \/ e.start.t = "absent"

\* line 89: e.get("end", start_str)
EndOrStart(e) == IF e.end.t = "absent" THEN e.start ELSE e.end

\* lines 91-92: (e.get(k, "") or "").strip() raises AttributeError on a
\* truthy value that is no str
StripRaises(x) == OrEmpty(GetOrEmpty(x)).t # "str"

UrlOf(e) == Strip(OrEmpty(GetOrEmpty(e.url)).v, Whitespace)
CatsOf(e) == Strip(Strip(OrEmpty(GetOrEmpty(e.categories)).v, Whitespace), {","})
DescOf(e) == OrEmpty(GetOrEmpty(e.description))
LocationOf(e) == GetOrEmpty(e.location)

\* lines 95-100
DatesParse(e) == CanParse(e.start) /\ CanParse(EndOrStart(e))

\* e_date as parsed, lines 101-102 left out
EndDateUnclamped(e) == parse_ymd(EndOrStart(e))

\* lines 97, 101-102: e_date after the clamp
EndDate(e) ==
    LET s == parse_ymd(e.start)
        e_date == parse_ymd(EndOrStart(e))
    IN IF DateLT(e_date, s) THEN s ELSE e_date

\* the entry reaches line 106
Passes(e) ==
    /\ ~MissingRequired(e)
    /\ DatesParse(e)
    /\ in_window(parse_ymd(e.start), EndDate(e))

\* an exception leaves build_vevent: AttributeError (lines 91-92),
\* OverflowError (line 106) or TypeError in slugify (line 107)
BuildRaises(e) ==
    /\ ~MissingRequired(e)
    /\ \/ StripRaises(e.url)
       \/ StripRaises(e.categories)
       \/ /\ Passes(e)
          /\ IsDateMax(EndDate(e)) \/ e.summary.t # "str"

\* lines 119-126
DescParts(e) ==
    (IF Truthy(DescOf(e)) THEN <<esc(DescOf(e).v)>> ELSE <<>>)
    \o (IF UrlOf(e) # <<>> THEN <<<<"M", "o", "r", "e", ":", " ">> \o UrlOf(e)>> ELSE <<>>)

\* line 107
UidOf(e) ==
    slugify(e.summary.v) \o <<"-">> \o YearText(parse_ymd(e.start)) \o <<"@whatson.local">>

\* lines 109-136, for an entry that passes and does not raise
VeventLines(e) ==
    <<Line("BEGIN", <<"VEVENT">>),
      Line("UID", UidOf(e)),
      Line("DTSTAMP", DTSTAMP),
      Line("DTSTART;VALUE=DATE", Compact(parse_ymd(e.start))),
      Line("DTEND;VALUE=DATE", Compact(NextDay(EndDate(e)))),
      Line("SUMMARY", esc(e.summary.v))>>
    \o (IF Truthy(LocationOf(e)) THEN <<Line("LOCATION", esc(LocationOf(e).v))>> ELSE <<>>)
    \o (IF DescParts(e) # <<>>
        THEN <<Line("DESCRIPTION", Join(DescParts(e), <<"\\", "n">>))>> ELSE <<>>)
    \o (IF UrlOf(e) # <<>> THEN <<Line("URL", UrlOf(e))>> ELSE <<>>)
    \o (IF CatsOf(e) # <<>> THEN <<Line("CATEGORIES", esc(CatsOf(e)))>> ELSE <<>>)
    \o <<Line("STATUS", <<"CONFIRMED">>),
         Line("TRANSP", <<"TRANSPARENT">>),
         Line("END", <<"VEVENT">>)>>

\* build_vevent, lines 81-136: the unit, or "" (the empty sequence)
build_vevent(e) == IF Passes(e) THEN VeventLines(e) ELSE <<>>

-----------------------------------------------------------------------------
(* main, lines 139-183                                                     *)

\* lines 144-149: the entry survives the first loop
CleanOk(e) ==
    /\ e.mapping
    /\ e.start.t # "absent"
    /\ CanParse(e.start)
    /\ CanParse(EndOrStart(e))

RECURSIVE Clean(_)
\* lines 142-149
Clean(es) ==
    IF es = <<>> THEN <<>>
    ELSE (IF CleanOk(Head(es))
          THEN <<[s |-> parse_ymd(Head(es).start),
                  e_end |-> parse_ymd(EndOrStart(Head(es))),
                  e |-> Head(es)]>>
          ELSE <<>>) \o Clean(Tail(es))

RECURSIVE InsertBefore(_, _)
\* an unstable insertion: x goes in front of the elements with an equal key
InsertBefore(sorted, x) ==
    IF sorted = <<>> THEN <<x>>
    ELSE IF ~DateLT(Head(sorted).s, x.s) THEN <<x>> \o sorted
    ELSE <<Head(sorted)>> \o InsertBefore(Tail(sorted), x)

RECURSIVE Insert(_, _)
\* list.sort is stable: x goes behind the elements whose key is not greater
Insert(sorted, x) ==
    IF sorted = <<>> THEN <<x>>
    ELSE IF DateLT(x.s, Head(sorted).s) THEN <<x>> \o sorted
    ELSE <<Head(sorted)>> \o Insert(Tail(sorted), x)

RECURSIVE SortFrom(_, _)
SortFrom(sorted, rest) ==
    IF rest = <<>> THEN sorted ELSE SortFrom(Insert(sorted, Head(rest)), Tail(rest))

\* line 150: cleaned.sort(key=lambda t: t[0])
SortByStart(cl) == SortFrom(<<>>, cl)

\* line 158
KeyOf(t) == <<GetOrEmpty(t.e.summary), Iso(t.s)>>

RECURSIVE Emit(_, _, _)
\* lines 152-162: the loop over cleaned, with seen and vevents
Emit(cl, seen, acc) ==
    IF cl = <<>> THEN acc
    ELSE LET ve == build_vevent(Head(cl).e)
             key == KeyOf(Head(cl))
         IN IF ve = <<>> \/ key \in seen
            THEN Emit(Tail(cl), seen, acc)
            ELSE Emit(Tail(cl), seen \cup {key}, Append(acc, ve))

\* lines 164-175
Header ==
    <<Line("BEGIN", <<"VCALENDAR">>),
      Line("VERSION", <<"2.0">>),
      Line("PRODID", PRODID),
      Line("CALSCALE", <<"GREGORIAN">>),
      Line("METHOD", <<"PUBLISH">>),
      Line("X-WR-TIMEZONE", <<"Europe/London">>),
      Line("X-WR-CALNAME", esc(CAL_NAME)),
      Line("REFRESH-INTERVAL;VALUE=DURATION", <<"P1D">>),
      Line("X-PUBLISHED-TTL", <<"PT12H">>)>>

Footer == <<Line("END", <<"VCALENDAR">>)>>

\* line 177
Vcal(ves) == Header \o Flatten(ves) \o Footer

-----------------------------------------------------------------------------
(* Inputs: the environment's window settings and the content of events.yaml *)

Entry(sm, st, en) ==
    [mapping |-> TRUE, summary |-> sm, start |-> st, end |-> en,
     location |-> Absent, url |-> Absent, categories |-> Absent,
     description |-> Absent]

\* an element of the events list that is no mapping (a bare scalar)
Scalar == [Entry(Absent, Absent, Absent) EXCEPT !.mapping = FALSE]

A == <<"a">>

\* the text "YYYY-MM-DD" of a date, and the same without leading zeros
DateText(d) == Str(<<d[1], d[2], d[3], 1>>)
Unpadded(d) == Str(<<d[1], d[2], d[3], 0>>)

\* batches: few summaries and dates, every order of up to MaxBatch entries
BatchEntries ==
    {Entry(Str(sm), DateText(st), en) :
        sm \in {<<"a">>, <<"A">>, <<"b">>},
        st \in {<<2025, 5, 31>>, <<2025, 7, 4>>},
        en \in {Absent, DateText(<<2025, 8, 1>>)}}
    \cup {Entry(Str(A), Unpadded(<<2025, 7, 4>>), DateText(<<2025, 8, 1>>)),
          Entry(None, DateText(<<2025, 7, 4>>), Absent),
          Entry(Absent, DateText(<<2025, 7, 4>>), Absent),
          Entry(Str(A), DateText(<<2025, 2, 30>>), Absent),
          Scalar}

Batches == UNION {[1..n -> BatchEntries] : n \in 0..MaxBatch}

\* one entry, dates at the month, year and window boundaries
DateTexts ==
    {DateText(d) : d \in {<<2025, 5, 31>>, <<2025, 6, 1>>, <<2025, 6, 2>>,
                          <<2027, 12, 30>>, <<2027, 12, 31>>, <<2028, 1, 1>>,
                          <<2028, 2, 28>>, <<2028, 2, 29>>, <<9999, 12, 31>>,
                          <<2025, 2, 30>>, <<0, 0, 0>>}}
    \cup {Unpadded(<<2025, 6, 1>>)}

DateEntries ==
    {Entry(Str(A), st, en) :
        st \in DateTexts \cup {Absent, [t |-> "date", v |-> <<2025, 7, 4, 1>>]},
        en \in DateTexts \cup {Absent, None}}

\* one entry, texts of up to MaxTextLen characters in one field
EscAlphabet == {"a", "n", "\\", ",", ";", "\n", " "}
SlugAlphabet == {"a", "A", "b", "e_acute", "euro", "-", " "}

TextsOver(alphabet) == UNION {[1..n -> alphabet] : n \in 0..MaxTextLen}

TextValues == {Str(t) : t \in TextsOver(EscAlphabet)} \cup {None, Int7}

Base == Entry(Str(A), DateText(<<2025, 7, 4>>), Absent)

TextEntries ==
    {[Base EXCEPT !.summary = Str(t)] :
        t \in TextsOver(EscAlphabet) \cup TextsOver(SlugAlphabet)}
    \cup {[Base EXCEPT !.location = x] : x \in TextValues}
    \cup {[Base EXCEPT !.categories = x] : x \in TextValues}
    \cup {[Base EXCEPT !.url = x, !.description = y] :
            x \in TextValues, y \in {Absent, Str(A)}}
    \cup {[Base EXCEPT !.description = x, !.url = y] :
            x \in TextValues, y \in {Absent, Str(A)}}

\* ICS_WINDOW_OPEN, ICS_WINDOW_START, ICS_WINDOW_END (Absent: not set)
Env(open, ws, we) == [open |-> open, ws |-> ws, we |-> we]

DefaultEnv == Env(FALSE, Absent, Absent)
OpenEnv == Env(TRUE, Absent, Absent)

WindowEnvs ==
    {OpenEnv}
    \cup {Env(FALSE, ws, we) :
            ws \in {Absent, DateText(<<2025, 6, 2>>), DateText(<<2027, 12, 30>>)},
            we \in {Absent, DateText(<<2025, 6, 2>>), DateText(<<2027, 12, 30>>)}}

Sources ==
    {[kind |-> k, events |-> <<>>] : k \in {"absent", "malformed", "notlist"}}
    \cup {[kind |-> "ok", events |-> b] : b \in Batches}

Inputs ==
    ({DefaultEnv, OpenEnv} \X Sources)
    \cup (WindowEnvs \X {[kind |-> "ok", events |-> <<e>>] : e \in DateEntries})
    \cup ({DefaultEnv} \X {[kind |-> "ok", events |-> <<e>>] : e \in TextEntries})

\* the file a previous run left: a complete, empty feed
OldFile == Vcal(<<>>)

-----------------------------------------------------------------------------
(* The process                                                             *)

Init ==
    \E in \in Inputs :
        /\ WINDOW_OPEN = in[1].open
        /\ WINDOW_START = ConfiguredStart(in[1].ws)
        /\ WINDOW_END = ConfiguredEnd(in[1].we)
        /\ source = in[2]
        /\ pc = "load"
        /\ evs = <<>>
        /\ cleaned = <<>>
        /\ vevents = <<>>
        /\ outfile = OldFile
        /\ status = -1
        /\ iofault = FALSE

\* line 140
LoadEvents ==
    /\ pc = "load"
    /\ evs' = load_events(source)
    /\ pc' = "clean"
    /\ UNCHANGED <<WINDOW_OPEN, WINDOW_START, WINDOW_END, source, cleaned,
                   vevents, outfile, status, iofault>>

\* lines 142-150
CleanAndSort ==
    /\ pc = "clean"
    /\ cleaned' = SortByStart(Clean(evs))
    /\ pc' = "build"
    /\ UNCHANGED <<WINDOW_OPEN, WINDOW_START, WINDOW_END, source, evs,
                   vevents, outfile, status, iofault>>

\* lines 152-162: an exception of build_vevent leaves main
BuildAll ==
    /\ pc = "build"
    /\ IF \E i \in 1..Len(cleaned) : BuildRaises(cleaned[i].e)
       THEN pc' = "fault" /\ vevents' = vevents
       ELSE pc' = "open" /\ vevents' = Emit(cleaned, {}, <<>>)
    /\ UNCHANGED <<WINDOW_OPEN, WINDOW_START, WINDOW_END, source, evs,
                   cleaned, outfile, status, iofault>>

\* line 179: open(OUT_ICS, "w") truncates the file, or fails and leaves it
OpenOut ==
    /\ pc = "open"
    /\ \E ok \in BOOLEAN :
        IF ok
        THEN outfile' = <<>> /\ pc' = "write" /\ iofault' = iofault
        ELSE outfile' = outfile /\ pc' = "fault" /\ iofault' = TRUE
    /\ UNCHANGED <<WINDOW_OPEN, WINDOW_START, WINDOW_END, source, evs,
                   cleaned, vevents, status>>

\* lines 177-180: f.write(vcal) and the close; a failing write or flush
\* (disk full, I/O error) leaves the first n lines in the file
WriteOut ==
    /\ pc = "write"
    /\ \E n \in 0..Len(Vcal(vevents)) :
        /\ outfile' = SubSeq(Vcal(vevents), 1, n)
        /\ IF n = Len(Vcal(vevents))
           THEN pc' = "return" /\ iofault' = iofault
           ELSE pc' = "fault" /\ iofault' = TRUE
    /\ UNCHANGED <<WINDOW_OPEN, WINDOW_START, WINDOW_END, source, evs,
                   cleaned, vevents, status>>

\* lines 182-183 and 187: return 0, raise SystemExit(0)
Return ==
    /\ pc = "return"
    /\ status' = 0
    /\ pc' = "exit"
    /\ UNCHANGED <<WINDOW_OPEN, WINDOW_START, WINDOW_END, source, evs,
                   cleaned, vevents, outfile, iofault>>

\* lines 188-190: the top-level handler
FaultHandler ==
    /\ pc = "fault"
    /\ status' = 1
    /\ pc' = "exit"
    /\ UNCHANGED <<WINDOW_OPEN, WINDOW_START, WINDOW_END, source, evs,
                   cleaned, vevents, outfile, iofault>>

Next ==
    \/ LoadEvents
    \/ CleanAndSort
    \/ BuildAll
    \/ OpenOut
    \/ WriteOut
    \/ Return
    \/ FaultHandler

Spec == Init /\ [][Next]_vars

-----------------------------------------------------------------------------
(* Reading the output back: the inverse of the documented text rule, the   *)
(* units of a document, dates as day numbers                               *)

RECURSIVE Unesc(_)
\* backslash-n is a newline, backslash-c is c
Unesc(s) ==
    IF s = <<>> THEN <<>>
    ELSE IF Head(s) = "\\" /\ Len(s) >= 2
         THEN <<IF s[2] = "n" THEN "\n" ELSE s[2]>> \o Unesc(Tail(Tail(s)))
         ELSE <<Head(s)>> \o Unesc(Tail(s))

RECURSIVE ProperlyEscaped(_)
\* every backslash starts an escape pair, and no comma, semicolon or newline
\* stands outside one
ProperlyEscaped(s) ==
    IF s = <<>> THEN TRUE
    ELSE IF Head(s) = "\\"
         THEN Len(s) >= 2 /\ s[2] \in {"\\", ",", ";", "n"}
              /\ ProperlyEscaped(Tail(Tail(s)))
         ELSE Head(s) \notin {",", ";", "\n"} /\ ProperlyEscaped(Tail(s))

BeginEvent == Line("BEGIN", <<"VEVENT">>)
EndEvent == Line("END", <<"VEVENT">>)

RECURSIVE ParseUnits(_, _, _)
\* the units of a sequence of lines: cur is the open unit (<<>>: none), ok
\* turns FALSE at a line outside a unit or a unit left open
ParseUnits(ls, cur, acc) ==
    IF ls = <<>> THEN [units |-> acc, ok |-> cur = <<>>]
    ELSE IF cur = <<>>
         THEN IF Head(ls) = BeginEvent
              THEN ParseUnits(Tail(ls), <<Head(ls)>>, acc)
              ELSE [units |-> acc, ok |-> FALSE]
         ELSE IF Head(ls) = EndEvent
              THEN ParseUnits(Tail(ls), <<>>, Append(acc, Append(cur, Head(ls))))
              ELSE IF Head(ls) = BeginEvent
                   THEN [units |-> acc, ok |-> FALSE]
                   ELSE ParseUnits(Tail(ls), Append(cur, Head(ls)), acc)

MetadataNames ==
    <<"BEGIN", "VERSION", "PRODID", "CALSCALE", "METHOD", "X-WR-TIMEZONE",
      "X-WR-CALNAME", "REFRESH-INTERVAL;VALUE=DURATION", "X-PUBLISHED-TTL">>

\* BEGIN:VCALENDAR and the metadata lines, complete units, END:VCALENDAR
WellFormed(doc) ==
    /\ Len(doc) >= Len(MetadataNames) + 1
    /\ doc[1] = Line("BEGIN", <<"VCALENDAR">>)
    /\ \A i \in 1..Len(MetadataNames) : doc[i].k = MetadataNames[i]
    /\ doc[Len(doc)] = Line("END", <<"VCALENDAR">>)
    /\ ParseUnits(SubSeq(doc, Len(MetadataNames) + 1, Len(doc) - 1), <<>>, <<>>).ok

\* the units of the document in the file
UnitsOf(doc) ==
    IF WellFormed(doc)
    THEN ParseUnits(SubSeq(doc, Len(MetadataNames) + 1, Len(doc) - 1), <<>>, <<>>).units
    ELSE <<>>

HasLine(u, k) == \E i \in 1..Len(u) : u[i].k = k
LineVal(u, k) == u[CHOOSE i \in 1..Len(u) : u[i].k = k].v

DigitVal(c) == CHOOSE n \in 0..9 : Digit(n) = c

\* the date a compact YYYYMMDD text spells
UnCompact(t) ==
    <<DigitVal(t[1]) * 1000 + DigitVal(t[2]) * 100 + DigitVal(t[3]) * 10 + DigitVal(t[4]),
      DigitVal(t[5]) * 10 + DigitVal(t[6]),
      DigitVal(t[7]) * 10 + DigitVal(t[8])>>

DaysBeforeMonth(y, m) ==
    <<0, 31, 59, 90, 120, 151, 181, 212, 243, 273, 304, 334>>[m]
    + (IF m > 2 /\ IsLeap(y) THEN 1 ELSE 0)

\* the proleptic Gregorian day number of a date (1 is 0001-01-01)
Ordinal(d) ==
    365 * (d[1] - 1) + ((d[1] - 1) \div 4) - ((d[1] - 1) \div 100)
    + ((d[1] - 1) \div 400) + DaysBeforeMonth(d[1], d[2]) + d[3]

\* main returned 0 and the process ended
Done == pc = "exit" /\ status = 0

Emitted == UnitsOf(outfile)

Entries == source.events

\* the identity key: summary exactly as given, start as a calendar date
HasKey(e) == e.mapping /\ e.summary.t = "str" /\ CanParse(e.start)
EntryKey(e) == <<e.summary.v, parse_ymd(e.start)>>
UnitKey(u) == <<Unesc(LineVal(u, "SUMMARY")), UnCompact(LineVal(u, "DTSTART;VALUE=DATE"))>>
UnitEnd(u) == UnCompact(LineVal(u, "DTEND;VALUE=DATE"))

\* the entry is valid and passes the window: the pipeline emits a unit for it
Accepted(e) == CleanOk(e) /\ build_vevent(e) # <<>>

SharingKey(k) == {i \in 1..Len(Entries) : HasKey(Entries[i]) /\ EntryKey(Entries[i]) = k}
AcceptedSharingKey(k) == {i \in SharingKey(k) : Accepted(Entries[i])}
Least(S) == CHOOSE i \in S : \A j \in S : i <= j

-----------------------------------------------------------------------------
(* C1 as stated: no two emitted units share an identity key, and the unit  *)
(* emitted for a key is the one of the first input entry in load order     *)
(* that has this key.                                                      *)
C1_FirstInputEntryWins ==
    Done =>
        /\ \A i, j \in 1..Len(Emitted) :
              i # j => UnitKey(Emitted[i]) # UnitKey(Emitted[j])
        /\ \A i \in 1..Len(Emitted) :
              LET k == UnitKey(Emitted[i])
              IN /\ SharingKey(k) # {}
                 /\ Emitted[i] = build_vevent(Entries[Least(SharingKey(k))])

(* C1: no two emitted units share an identity key, and the unit emitted    *)
(* for a key is the one of the first entry in load order among the entries *)
(* with this key that are valid and in the window; every such key is       *)
(* emitted.                                                                *)
C1_FirstAcceptedEntryWins ==
    Done =>
        /\ \A i, j \in 1..Len(Emitted) :
              i # j => UnitKey(Emitted[i]) # UnitKey(Emitted[j])
        /\ \A i \in 1..Len(Emitted) :
              LET k == UnitKey(Emitted[i])
              IN /\ AcceptedSharingKey(k) # {}
                 /\ Emitted[i] = build_vevent(Entries[Least(AcceptedSharingKey(k))])
        /\ \A n \in 1..Len(Entries) :
              Accepted(Entries[n]) =>
                  \E i \in 1..Len(Emitted) : UnitKey(Emitted[i]) = EntryKey(Entries[n])

\* two accepted entries with one key and different units, and the run ended
C1_Witness ==
    /\ Done
    /\ \E i, j \in 1..Len(Entries) :
          /\ i < j
          /\ Accepted(Entries[i]) /\ Accepted(Entries[j])
          /\ EntryKey(Entries[i]) = EntryKey(Entries[j])
          /\ build_vevent(Entries[i]) # build_vevent(Entries[j])
          /\ \E n \in 1..Len(Emitted) : Emitted[n] = build_vevent(Entries[i])

-----------------------------------------------------------------------------
(* What the contract calls a valid event, its canonical span, an overlap   *)

\* summary and start are present texts, start and end spell calendar dates
ValidEntry(e) ==
    /\ e.mapping
    /\ e.summary.t = "str"
    /\ CanParse(e.start)
    /\ CanParse(EndOrStart(e))

StartOf(e) == parse_ymd(e.start)

\* the canonical end: the given end, the start when none is given or when the
\* given one is earlier
CanonEnd(e) ==
    IF Ordinal(parse_ymd(EndOrStart(e))) < Ordinal(StartOf(e))
    THEN StartOf(e) ELSE parse_ymd(EndOrStart(e))

\* some day lies in both [s, e] and [WINDOW_START, WINDOW_END]
Overlaps(s, e) ==
    \E day \in {Ordinal(s), Ordinal(WINDOW_START)} :
        /\ Ordinal(s) <= day /\ day <= Ordinal(e)
        /\ Ordinal(WINDOW_START) <= day /\ day <= Ordinal(WINDOW_END)

Single == source.kind = "ok" /\ Len(Entries) = 1

KeyEmitted(k) == \E i \in 1..Len(Emitted) : UnitKey(Emitted[i]) = k

CodePoint(c) ==
    CASE c = "a" -> 97 [] c = "b" -> 98 [] c = "e" -> 101 [] c = "n" -> 110
      [] c = "A" -> 65 [] c = "B" -> 66 [] OTHER -> 0

RECURSIVE TextLE(_, _)
\* x <= y for Python strings
TextLE(x, y) ==
    IF x = <<>> THEN TRUE
    ELSE IF y = <<>> THEN FALSE
    ELSE IF CodePoint(Head(x)) # CodePoint(Head(y))
         THEN CodePoint(Head(x)) < CodePoint(Head(y))
         ELSE TextLE(Tail(x), Tail(y))

-----------------------------------------------------------------------------
(* C2: the emitted units are ordered by start date ascending, and units    *)
(* with equal start dates by case-insensitive summary ascending.           *)
C2_SortedByStartThenSummary ==
    Done =>
        \A i, j \in 1..Len(Emitted) :
            i < j =>
                LET ki == UnitKey(Emitted[i])
                    kj == UnitKey(Emitted[j])
                IN \/ Ordinal(ki[2]) < Ordinal(kj[2])
                   \/ /\ ki[2] = kj[2]
                      /\ TextLE(LowerAll(ki[1]), LowerAll(kj[1]))

(* C3: one bad entry never aborts the batch: unless the operating system   *)
(* fails the write, the run ends with status 0, a unit is emitted for      *)
(* every valid entry in the window, and as many units as these entries     *)
(* have keys.                                                              *)
C3_BadEntryNeverAborts ==
    (pc = "exit" /\ ~iofault) =>
        /\ status = 0
        /\ \A n \in 1..Len(Entries) :
              (ValidEntry(Entries[n]) /\ in_window(StartOf(Entries[n]), CanonEnd(Entries[n])))
                  => KeyEmitted(EntryKey(Entries[n]))
        /\ Len(Emitted) =
              Cardinality({EntryKey(Entries[n]) :
                  n \in {m \in 1..Len(Entries) :
                      /\ ValidEntry(Entries[m])
                      /\ in_window(StartOf(Entries[m]), CanonEnd(Entries[m]))}})

OptionalMarkers == {"LOCATION", "URL", "CATEGORIES", "DESCRIPTION"}

(* C4: no emitted unit holds a LOCATION, URL, CATEGORIES or DESCRIPTION    *)
(* line whose value is empty or only whitespace.                           *)
C4_NoBlankOptionalMarker ==
    Done =>
        \A i \in 1..Len(Emitted) :
            \A l \in 1..Len(Emitted[i]) :
                Emitted[i][l].k \in OptionalMarkers
                    => Strip(Emitted[i][l].v, Whitespace) # <<>>

(* C5: once the process has ended, the file at OUT_ICS holds its previous  *)
(* complete content or a complete envelope.                                *)
C5_NeverTruncated ==
    pc = "exit" => (outfile = OldFile \/ WellFormed(outfile))

\* the texts of an entry that its unit embeds
MoreInfo(e) == <<"M", "o", "r", "e", ":", " ">> \o UrlOf(e)

DescriptionText(e) ==
    Join((IF Truthy(DescOf(e)) THEN <<DescOf(e).v>> ELSE <<>>)
         \o (IF UrlOf(e) # <<>> THEN <<MoreInfo(e)>> ELSE <<>>), <<"\n">>)

EmbeddedText(e, k) ==
    CASE k = "SUMMARY" -> e.summary.v
      [] k = "LOCATION" -> LocationOf(e).v
      [] k = "CATEGORIES" -> CatsOf(e)
      [] k = "DESCRIPTION" -> DescriptionText(e)

TextMarkers == {"SUMMARY", "LOCATION", "CATEGORIES", "DESCRIPTION"}

(* C6: every text value embedded in an emitted unit (summary, location,    *)
(* categories, description with the url of its "More:" line) has its       *)
(* backslashes, commas, semicolons and newlines escaped, and un-escaping   *)
(* it gives the text of the entry back.                                    *)
C6_EscapedAndRoundTrips ==
    (Done /\ Single) =>
        \A i \in 1..Len(Emitted) :
            \A l \in 1..Len(Emitted[i]) :
                Emitted[i][l].k \in TextMarkers =>
                    /\ ProperlyEscaped(Emitted[i][l].v)
                    /\ Unesc(Emitted[i][l].v) = EmbeddedText(Entries[1], Emitted[i][l].k)

(* C7 as stated: with the window not open, a valid event is emitted        *)
(* exactly when its span overlaps the closed interval                      *)
(* [WINDOW_START, WINDOW_END]; with the window open it always is.          *)
C7_PassesIffOverlap ==
    (Done /\ Single /\ ValidEntry(Entries[1])) =>
        (Emitted # <<>>) =
            (WINDOW_OPEN \/ Overlaps(StartOf(Entries[1]), CanonEnd(Entries[1])))

(* C7: when WINDOW_START <= WINDOW_END (or the window is open), a valid    *)
(* event is emitted exactly when its span overlaps the closed interval     *)
(* [WINDOW_START, WINDOW_END], boundaries included: start = end =          *)
(* WINDOW_END passes, start = end = WINDOW_END + 1 day fails, end =        *)
(* WINDOW_START passes; with the window open every valid event passes.     *)
C7_PassesIffOverlapOfProperWindow ==
    (/\ Done /\ Single /\ ValidEntry(Entries[1])
     /\ WINDOW_OPEN \/ Ordinal(WINDOW_START) <= Ordinal(WINDOW_END)) =>
        LET s == StartOf(Entries[1])
            e == CanonEnd(Entries[1])
            out == Emitted # <<>>
        IN /\ out = (WINDOW_OPEN \/ Overlaps(s, e))
           /\ WINDOW_OPEN => out
           /\ (~WINDOW_OPEN /\ s = e /\ e = WINDOW_END) => out
           /\ (~WINDOW_OPEN /\ s = e /\ Ordinal(s) = Ordinal(WINDOW_END) + 1) => ~out
           /\ (~WINDOW_OPEN /\ e = WINDOW_START) => out
           /\ (~WINDOW_OPEN /\ Ordinal(e) < Ordinal(WINDOW_START)) => ~out
           /\ (~WINDOW_OPEN /\ Ordinal(s) > Ordinal(WINDOW_END)) => ~out

\* an event that ends on the first day of a window set by the environment
\* was emitted, and one that starts the day after the window's end was not
C7_Witness ==
    /\ Done /\ Single /\ ValidEntry(Entries[1])
    /\ ~WINDOW_OPEN
    /\ WINDOW_START # DEFAULT_WINDOW_START
    /\ Ordinal(WINDOW_START) < Ordinal(WINDOW_END)
    /\ Ordinal(StartOf(Entries[1])) < Ordinal(WINDOW_START)
    /\ CanonEnd(Entries[1]) = WINDOW_START
    /\ Emitted # <<>>

(* C8: for every emitted event the canonical end (the given end, the start *)
(* when it is absent or earlier than the start) is not before the start,   *)
(* DTEND is that end plus exactly one day and so later than DTSTART; an    *)
(* end earlier than the start does not reject the entry.                   *)
C8_EndClampedAndExclusive ==
    Done =>
        /\ \A i \in 1..Len(Emitted) :
              \E n \in SharingKey(UnitKey(Emitted[i])) :
                 /\ ValidEntry(Entries[n])
                 /\ Ordinal(CanonEnd(Entries[n])) >= Ordinal(StartOf(Entries[n]))
                 /\ Ordinal(UnitEnd(Emitted[i])) = Ordinal(CanonEnd(Entries[n])) + 1
                 /\ Ordinal(UnitEnd(Emitted[i])) > Ordinal(UnitKey(Emitted[i])[2])
                 /\ UnitEnd(Emitted[i])[2] \in 1..12
                 /\ UnitEnd(Emitted[i])[3] \in
                        1..DaysInMonth(UnitEnd(Emitted[i])[1], UnitEnd(Emitted[i])[2])
        /\ (Single /\ ValidEntry(Entries[1]) /\ WINDOW_OPEN) => Emitted # <<>>

\* an entry whose end is earlier than its start was emitted
C8_Witness ==
    /\ Done /\ Single /\ ValidEntry(Entries[1])
    /\ Ordinal(parse_ymd(EndOrStart(Entries[1]))) < Ordinal(StartOf(Entries[1]))
    /\ Emitted # <<>>

(* C9: for every input, unless the operating system fails the write, the   *)
(* run ends with status 0 and the file holds a well-formed envelope.       *)
C9_AlwaysWellFormedAndSuccess ==
    (pc = "exit" /\ ~iofault) => (status = 0 /\ WellFormed(outfile))

(* C10: no two emitted units carry the same UID.                           *)
C10_UidsDistinct ==
    Done =>
        \A i, j \in 1..Len(Emitted) :
            i # j => LineVal(Emitted[i], "UID") # LineVal(Emitted[j], "UID")

====
